---- MODULE Spec2Model ----
(***************************************************************************)
(* Presence and state-synchronisation layer of cospace-xr.                 *)
(*                                                                         *)
(* Part I  : the relay server (server/index.js): the rooms and users maps, *)
(*           the socket.io adapter rooms, and one action per socket event  *)
(*           handler, each run to completion (Node's single event loop).   *)
(* Part II : the client transport (src/networking/WebSocketClient.ts) and  *)
(*           its caller NetworkSystem.connectToServer.                     *)
(* Part III: the client world: the frame loop of NetworkSystem, the task   *)
(*           board (TaskBoardSystem), the presence replica (NetworkSystem, *)
(*           AvatarSystem) and the gesture detection (GestureSystem).      *)
(***************************************************************************)
EXTENDS Integers, Sequences, FiniteSets, TLC

(***************************************************************************)
(* Bounds of the model and program constants.                              *)
(***************************************************************************)
\* socket ids the server can have in use at one time: enough to fill a room
\* and have one connection refused
MaxSockets == 5
\* socket ids in use at one time where every relayed event and payload is
\* enumerated
RelaySockets == 3
\* join-room events the environment sends on sockets that already hold a session
MaxRejoins == 1
\* room.size >= 4
Capacity == 4

Sockets == 1..MaxSockets
RelayPool == 1..RelaySockets
RoomIds == {"r1", "r2"}
UserIds == {"u1", "u2"}
Colors == {"c1"}
\* a payload field that is not present in the object (JavaScript undefined)
Undefined == "undefined"
\* the keys a join-room payload can give the rooms Map: a roomId, or undefined
RoomKeys == RoomIds \cup {Undefined}
\* inbound payloads of the relayed events: a body, and possibly a userId key
Bodies == {"b1"}
Payloads == [userId : UserIds \cup {Undefined}, body : Bodies]
RelayEvents == {"update-transform", "update-gesture", "task-update", "voice-comment"}

VARIABLES
    rejoins,     \* join-room events handled so far on sockets holding a session
    live,        \* sockets connected and not yet disconnected
    rooms,       \* const rooms = new Map(): roomId -> Set of socket ids
    users,       \* const users = new Map(): socket id -> {userId, roomId, color}
    adapter,     \* socket.io adapter rooms: roomId -> sockets that socket.join()ed
    last,        \* the event whose handler ran last
    sent         \* the packets that handler emitted, in order

serverVars == <<rejoins, live, rooms, users, adapter, last, sent>>

VARIABLES
    calls,              \* connect() calls made so far; call k creates socket k
    promise,            \* the Promise each connect() call returned
    sock,               \* the socket.io client socket each call created
    socket,             \* this.socket: the latest socket, 0 for null
    reconnectAttempts,  \* this.reconnectAttempts
    retryTimer,         \* NetworkSystem's setTimeout(connectToServer, 5000) is armed
    clast               \* the client event handled last

clientVars == <<calls, promise, sock, socket, reconnectAttempts, retryTimer, clast>>

VARIABLES
    time,               \* the time of the latest frame, in milliseconds
    lastSyncTime,       \* NetworkSystem.lastSyncTime
    lastEmitTime,       \* the frame time of the latest update-transform, -1 for none
    prevEmitTime,       \* the frame time of the update-transform before it
    frame               \* what NetworkSystem.update emitted in the latest frame

throttleVars == <<lastSyncTime, lastEmitTime, prevEmitTime, frame>>

syncVars == <<time, throttleVars>>

VARIABLES
    taskCards,          \* the TaskCard entities of the observed client, by taskId
    taskBoardUpdates,   \* world.globals.taskBoardUpdates of the observed client
    taskComments,       \* world.globals.taskComments of the observed client
    held                \* its grabbed cards: taskId -> the column the card is held over

taskVars == <<taskCards, taskBoardUpdates, taskComments, held>>

VARIABLES
    remoteUsers,        \* NetworkSystem.remoteUsers: userId -> entity
    avatars,            \* the entities that have an Avatar component, by entity id
    wlast               \* the presence event or frame handled last

presenceVars == <<remoteUsers, avatars, wlast>>

worldVars == <<syncVars, taskVars, presenceVars>>

vars == <<serverVars, clientVars, worldVars>>

(***************************************************************************)
(* Helpers over the two Maps.                                              *)
(***************************************************************************)
\* Map.prototype.set
MapSet(m, k, v) == [x \in DOMAIN m \cup {k} |-> IF x = k THEN v ELSE m[x]]
\* Map.prototype.delete
MapDelete(m, k) == [x \in DOMAIN m \ {k} |-> m[x]]
\* the value undefined where a record is expected, and a packet without payload
UndefinedUser == [undefined |-> TRUE]
NoData == [empty |-> TRUE]
\* users.get(id): the record, or undefined
UsersGet(u, id) == IF id \in DOMAIN u THEN u[id] ELSE UndefinedUser

\* the i-th smallest element of a finite set of integers
Nth(S, i) == CHOOSE x \in S : Cardinality({y \in S : y < x}) = i - 1
\* Array.from(set) restricted to these ids, as a sequence
SeqOf(S) == [i \in 1..Cardinality(S) |-> Nth(S, i)]

\* socket.emit(ev, data): one packet to the socket itself
EmitTo(s, ev, data) == <<[to |-> s, ev |-> ev, data |-> data]>>
\* socket.to(room).emit(ev, data): one packet to every socket of the adapter
\* room except the sender
BroadcastTo(ad, room, s, ev, data) ==
    LET targets == ad[room] \ {s}
    IN  [i \in 1..Cardinality(targets) |->
            [to |-> Nth(targets, i), ev |-> ev, data |-> data]]

(***************************************************************************)
(* io.on("connection"): a new socket, with its handlers registered.        *)
(***************************************************************************)
\* The ids still referenced: the live sockets and the ids a room's Set holds.
\* socket.io gives every connection an id no live socket has; an id that is
\* referenced nowhere is as good as a new one.
InUse == live \cup UNION {rooms[r] : r \in DOMAIN rooms}

Connection(pool) ==
    /\ pool \ InUse # {}
    /\ LET s == Nth(pool \ InUse, 1)
       IN  /\ live' = live \cup {s}
           /\ last' = [ev |-> "connection", socket |-> s]
    /\ sent' = <<>>
    /\ UNCHANGED <<rejoins, rooms, users, adapter>>

(***************************************************************************)
(* socket.on("join-room")                                                  *)
(***************************************************************************)
\* the capacity test off by one
RoomFullOffByOne(room) == Cardinality(room) > Capacity

\* if (room.size >= 4)
RoomFull(room) == Cardinality(room) >= Capacity

\* rooms after "if (!rooms.has(roomId)) rooms.set(roomId, new Set())"
EnsureRoom(rs, roomId) == IF roomId \in DOMAIN rs THEN rs ELSE MapSet(rs, roomId, {})

\* existingUsers: Array.from(room).filter(id => id !== socket.id).map(id => users.get(id))
ExistingUsers(room, us, s) ==
    LET others == SeqOf(room \ {s})
    IN  [i \in 1..Len(others) |-> UsersGet(us, others[i])]

JoinRoom(s, roomId, userId, color) ==
    LET rooms1 == EnsureRoom(rooms, roomId)
        room == rooms1[roomId]
    IN  /\ s \in live
        /\ IF s \in DOMAIN users
           THEN rejoins < MaxRejoins /\ rejoins' = rejoins + 1
           ELSE rejoins' = rejoins
        /\ IF RoomFull(room)
           THEN /\ sent' = EmitTo(s, "room-full", NoData)
                /\ rooms' = rooms1
                /\ last' = [ev |-> "join-room", socket |-> s, roomId |-> roomId,
                             userId |-> userId]
                /\ UNCHANGED <<users, adapter>>
           ELSE LET room2 == room \cup {s}
                    users2 == MapSet(users, s,
                                [userId |-> userId, roomId |-> roomId, color |-> color])
                    adapter2 == [adapter EXCEPT ![roomId] = @ \cup {s}]
                IN  /\ adapter' = adapter2
                    /\ rooms' = MapSet(rooms1, roomId, room2)
                    /\ users' = users2
                    /\ sent' = BroadcastTo(adapter2, roomId, s, "user-joined",
                                    [userId |-> userId, color |-> color])
                               \o EmitTo(s, "room-joined",
                                    [users |-> ExistingUsers(room2, users2, s)])
                    /\ last' = [ev |-> "join-room", socket |-> s, roomId |-> roomId,
                             userId |-> userId]
        /\ UNCHANGED live

\* join-room without a payload: "const { roomId, userId, color } = data" throws
\* a TypeError before the handler has done anything
JoinRoomNoPayload(s) ==
    /\ s \in live
    /\ last' = [ev |-> "join-room", socket |-> s, roomId |-> Undefined,
                 userId |-> Undefined, threw |-> "TypeError"]
    /\ sent' = <<>>
    /\ UNCHANGED <<rejoins, live, rooms, users, adapter>>

(***************************************************************************)
(* The four relay handlers.                                                *)
(***************************************************************************)
\* { userId: user.userId, ...data }: a key of data replaces the one before it
Attributed(user, data) ==
    [userId |-> IF data.userId # Undefined THEN data.userId ELSE user.userId,
     body |-> data.body]

\* the event a handler emits and its payload
RelayName(ev) ==
    CASE ev = "update-transform" -> "remote-transform"
      [] ev = "update-gesture" -> "remote-gesture"
      [] ev = "task-update" -> "task-changed"
      [] ev = "voice-comment" -> "new-comment"

RelayData(ev, user, data) ==
    IF ev = "task-update" THEN data ELSE Attributed(user, data)

\* const user = users.get(socket.id); if (!user) return;
HasSession(us, s) == UsersGet(us, s) # UndefinedUser

\* a relay handler without "if (!user) return", falling back to a default room
RelayUnchecked(s, ev, data) ==
    /\ s \in live
    /\ sent' = BroadcastTo([r \in RoomKeys |-> live], 
                           IF HasSession(users, s) THEN users[s].roomId ELSE "r1",
                           s, RelayName(ev), data)
    /\ last' = [ev |-> ev, socket |-> s, data |-> data]
    /\ UNCHANGED <<rejoins, live, rooms, users, adapter>>

Relay(s, ev, data) ==
    /\ s \in live
    /\ sent' = IF HasSession(users, s)
               THEN BroadcastTo(adapter, users[s].roomId, s, RelayName(ev),
                                RelayData(ev, users[s], data))
               ELSE <<>>
    /\ last' = [ev |-> ev, socket |-> s, data |-> data]
    /\ UNCHANGED <<rejoins, live, rooms, users, adapter>>

(***************************************************************************)
(* socket.on("disconnect"): socket.io has already taken the socket out of  *)
(* every adapter room when the handler runs.                               *)
(***************************************************************************)
\* the empty room is kept
CleanUpSkipped(rs, roomId) == rs

\* if (room.size === 0) rooms.delete(user.roomId)
CleanUp(rs, roomId) == IF rs[roomId] = {} THEN MapDelete(rs, roomId) ELSE rs

Disconnect(s) ==
    LET adapter1 == [r \in RoomKeys |-> adapter[r] \ {s}]
        user == UsersGet(users, s)
    IN  /\ s \in live
        /\ live' = live \ {s}
        /\ adapter' = adapter1
        /\ last' = [ev |-> "disconnect", socket |-> s, user |-> user]
        /\ IF user # UndefinedUser
           THEN /\ IF user.roomId \in DOMAIN rooms
                   THEN /\ rooms' = CleanUp(MapSet(rooms, user.roomId,
                                                   rooms[user.roomId] \ {s}),
                                            user.roomId)
                        /\ sent' = BroadcastTo(adapter1, user.roomId, s, "user-left",
                                               [userId |-> user.userId])
                   ELSE /\ rooms' = rooms
                        /\ sent' = <<>>
                /\ users' = MapDelete(users, s)
           ELSE /\ sent' = <<>>
                /\ UNCHANGED <<rooms, users>>
        /\ UNCHANGED rejoins

(***************************************************************************)
(* The server: no connection, empty maps.                                  *)
(***************************************************************************)
ServerInit ==
    /\ rejoins = 0
    /\ live = {}
    /\ rooms = << >>
    /\ users = << >>
    /\ adapter = [r \in RoomKeys |-> {}]
    /\ last = [ev |-> "listen"]
    /\ sent = <<>>

(***************************************************************************)
(* Part II.  WebSocketClient and its caller NetworkSystem.connectToServer. *)
(* Every connect() call makes a Promise and a socket of its own (io() with *)
(* reconnection: true), whose handlers close over that Promise's resolve   *)
(* and reject; this.reconnectAttempts is shared by all of them.            *)
(***************************************************************************)
\* connect() calls of one run
MaxCalls == 2
\* private maxReconnectAttempts = 5, also passed as reconnectionAttempts
MaxReconnectAttempts == 5

Calls == 1..MaxCalls
NoSocket ==
    [state |-> "none", backoff |-> 0, tries |-> 0, joinSent |-> FALSE, joins |-> 0,
     acked |-> FALSE]

\* resolve() and reject() of a Promise: only the first call settles it
Settle(p, outcome) == IF p = "pending" THEN outcome ELSE p

\* catch (error) { setTimeout(() => this.connectToServer(), 5000) } runs when
\* the awaited Promise goes from pending to rejected
Armed(before, after) ==
    before = "pending" /\ after \in {"RoomFull", "ConnectionError"}

\* NetworkSystem.connectToServer -> WebSocketClient.connect: from init(), and
\* again from the retry timer
ConnectToServer ==
    /\ calls < MaxCalls
    /\ calls = 0 \/ retryTimer
    /\ calls' = calls + 1
    /\ promise' = [promise EXCEPT ![calls + 1] = "pending"]
    /\ sock' = [sock EXCEPT ![calls + 1] =
                  [state |-> "opening", backoff |-> 0, tries |-> 1, joinSent |-> FALSE, joins |-> 0,
                   acked |-> FALSE]]
    /\ socket' = calls + 1
    /\ retryTimer' = FALSE
    /\ clast' = [ev |-> "connect()", sock |-> calls + 1]
    /\ UNCHANGED reconnectAttempts

\* if (this.reconnectAttempts >= this.maxReconnectAttempts) reject(...)
BudgetSpent(n) == n >= MaxReconnectAttempts

\* socket.on("connect_error"): a connection attempt of socket k failed.  The
\* manager schedules the next attempt unless reconnectionAttempts are used up.
ConnectError(k) ==
    LET n == reconnectAttempts + 1
        p == IF BudgetSpent(n) THEN Settle(promise[k], "ConnectionError") ELSE promise[k]
    IN  /\ sock[k].state = "opening"
        /\ reconnectAttempts' = n
        /\ promise' = [promise EXCEPT ![k] = p]
        /\ retryTimer' = (retryTimer \/ Armed(promise[k], p))
        /\ sock' = [sock EXCEPT ![k] =
                      IF @.backoff >= MaxReconnectAttempts
                      THEN [@ EXCEPT !.state = "closed", !.backoff = 0]
                      ELSE [@ EXCEPT !.state = "backoff", !.backoff = @ + 1]]
        /\ clast' = [ev |-> "connect_error", sock |-> k]
        /\ UNCHANGED <<calls, socket>>

\* the manager's reconnection timer: the next attempt starts
ReconnectAttempt(k) ==
    /\ sock[k].state = "backoff"
    /\ sock' = [sock EXCEPT ![k] = [@ EXCEPT !.state = "opening", !.tries = @ + 1]]
    /\ clast' = [ev |-> "reconnect_attempt", sock |-> k]
    /\ UNCHANGED <<calls, promise, socket, reconnectAttempts, retryTimer>>

\* socket.on("connect"): the attempt succeeded; join-room is emitted (joins
\* counts the join-rooms emitted on the socket's present connection)
OnConnect(k) ==
    /\ sock[k].state = "opening"
    /\ reconnectAttempts' = 0
    /\ sock' = [sock EXCEPT ![k] =
                  [state |-> "connected", backoff |-> 0, tries |-> 0, joinSent |-> TRUE,
                   joins |-> @.joins + 1,
                   acked |-> FALSE]]
    /\ clast' = [ev |-> "connect", sock |-> k]
    /\ UNCHANGED <<calls, promise, socket, retryTimer>>

\* socket.on("room-joined"): the server's answer to the join-room of socket k
OnRoomJoined(k) ==
    /\ sock[k].state = "connected" /\ sock[k].joinSent
    /\ promise' = [promise EXCEPT ![k] = Settle(@, "resolved")]
    /\ sock' = [sock EXCEPT ![k].joinSent = FALSE, ![k].acked = TRUE]
    /\ clast' = [ev |-> "room-joined", sock |-> k]
    /\ UNCHANGED <<calls, socket, reconnectAttempts, retryTimer>>

\* socket.on("room-full")
OnRoomFull(k) ==
    LET p == Settle(promise[k], "RoomFull")
    IN  /\ sock[k].state = "connected" /\ sock[k].joinSent
        /\ promise' = [promise EXCEPT ![k] = p]
        /\ retryTimer' = (retryTimer \/ Armed(promise[k], p))
        /\ sock' = [sock EXCEPT ![k].joinSent = FALSE]
        /\ clast' = [ev |-> "room-full", sock |-> k]
        /\ UNCHANGED <<calls, socket, reconnectAttempts>>

\* socket.on("disconnect"): the transport of a connected socket closed; the
\* manager starts reconnecting, and an answer still under way is lost
OnDisconnect(k) ==
    /\ sock[k].state = "connected"
    /\ sock' = [sock EXCEPT ![k] =
                  [state |-> "backoff", backoff |-> 1, tries |-> 0, joinSent |-> FALSE, joins |-> 0,
                   acked |-> FALSE]]
    /\ clast' = [ev |-> "disconnect", sock |-> k]
    /\ UNCHANGED <<calls, promise, socket, reconnectAttempts, retryTimer>>

\* WebSocketClient.disconnect(), called by NetworkSystem.destroy()
ClientDisconnect ==
    /\ IF socket # 0
       THEN /\ sock' = [sock EXCEPT ![socket] =
                          [state |-> "closed", backoff |-> 0, tries |-> 0,
                           joinSent |-> FALSE, joins |-> 0, acked |-> FALSE]]
            /\ socket' = 0
       ELSE UNCHANGED <<sock, socket>>
    /\ clast' = [ev |-> "disconnect()", sock |-> socket]
    /\ UNCHANGED <<calls, promise, reconnectAttempts, retryTimer>>

\* isConnected(): this.socket?.connected ?? false
IsConnected == socket # 0 /\ sock[socket].state = "connected"

\* the guard without "!this.socket.connected": socket.io buffers what is
\* emitted on a socket that is not connected and flushes it when it connects
EmitsUnguarded == socket # 0

\* sendTransformUpdate, sendGestureUpdate, sendTaskUpdate, sendVoiceComment:
\* if (!this.socket || !this.socket.connected) return; this.socket.emit(ev, data)
Emits == socket # 0 /\ sock[socket].state = "connected"

Send(ev) ==
    /\ clast' = [ev |-> "send", sock |-> socket, name |-> ev, emitted |-> Emits]
    /\ UNCHANGED <<calls, promise, sock, socket, reconnectAttempts, retryTimer>>

ClientInit ==
    /\ calls = 0
    /\ promise = [c \in Calls |-> "none"]
    /\ sock = [c \in Calls |-> NoSocket]
    /\ socket = 0
    /\ reconnectAttempts = 0
    /\ retryTimer = FALSE
    /\ clast = [ev |-> "new", sock |-> 0]

ClientNext ==
    \/ ConnectToServer
    \/ \E k \in Calls : ConnectError(k)
    \/ \E k \in Calls : ReconnectAttempt(k)
    \/ \E k \in Calls : OnConnect(k)
    \/ \E k \in Calls : OnRoomJoined(k)
    \/ \E k \in Calls : OnRoomFull(k)
    \/ \E k \in Calls : OnDisconnect(k)
    \/ ClientDisconnect
    \/ \E ev \in RelayEvents : Send(ev)

(***************************************************************************)
(* Part III.  The frame loop of the client world.  NetworkSystem.update    *)
(* sends the local avatar's transform at most every syncRate and its       *)
(* gestures in every frame.  Times are in milliseconds.                    *)
(***************************************************************************)
\* frames of one run
MaxTicks == 6
\* the frame times of a run: any non-decreasing choice of multiples of 25 ms
FrameTimes == {25 * i : i \in 0..MaxTicks}
\* syncRate: { type: Types.Float32, default: 0.05 }, 50 ms
SyncRate == 50

NoFrame == [transform |-> FALSE, gesture |-> FALSE]

\* the throttle left out
DueEveryFrame(t, lastSync) == TRUE

\* if (time - this.lastSyncTime >= this.config.syncRate.value)
Due(t, lastSync) == t - lastSync >= SyncRate

\* NetworkSystem.update(delta, time); hasLocal: the localAvatar query has an
\* entity, without which syncLocalAvatar and syncLocalGestures send nothing
Update(t, hasLocal) ==
    /\ t >= time
    /\ time' = t
    /\ IF ~IsConnected
       THEN /\ frame' = NoFrame
            /\ UNCHANGED <<lastSyncTime, lastEmitTime, prevEmitTime>>
       ELSE /\ IF Due(t, lastSyncTime)
               THEN /\ lastSyncTime' = t
                    /\ IF hasLocal /\ Emits
                       THEN lastEmitTime' = t /\ prevEmitTime' = lastEmitTime
                       ELSE UNCHANGED <<lastEmitTime, prevEmitTime>>
               ELSE UNCHANGED <<lastSyncTime, lastEmitTime, prevEmitTime>>
            /\ frame' = [transform |-> Due(t, lastSyncTime) /\ hasLocal /\ Emits,
                         gesture |-> hasLocal /\ Emits]

SyncInit ==
    /\ time = 0
    /\ lastSyncTime = 0
    /\ lastEmitTime = -1
    /\ prevEmitTime = -1
    /\ frame = NoFrame

(***************************************************************************)
(* The task board replica of each client: NetworkSystem queues every       *)
(* task-changed, TaskBoardSystem.update applies the queue in its frame.    *)
(* One client's world is followed: the client behind connection Observer.  *)
(***************************************************************************)
\* task-changed payloads a client queues between two frames
MaxQueue == 2

\* task_1 is one of the demo tasks every board is created with; no board has task_9
TaskIds == {"task_1", "task_9"}
DemoTasks == {"task_1"}
Columns == {"todo", "done"}
\* the first of createDemoTasks' records, as a TaskCard (comments: "[]")
DemoCard ==
    [column |-> "todo", position |-> 0, text |-> "Setup project structure",
     priority |-> "high", comments |-> <<>>]
\* the payload syncTaskToNetwork builds from a card
SyncTaskToNetwork(card, taskId) ==
    [taskId |-> taskId, column |-> card.column, position |-> card.position,
     text |-> card.text, priority |-> card.priority]
\* the task-update payloads of a card that was dragged to a column
TaskUpdates == {SyncTaskToNetwork([DemoCard EXCEPT !.column = c], t) :
                    t \in TaskIds, c \in Columns}
\* task-changed payloads with any of the four fields absent, and position 0
\* and the empty text among the values of the present ones
Positions == {0, 1}
Texts == {"", "x"}
Priorities == {"low"}
TaskFields == {"column", "position", "text", "priority"}
BoardUpdates ==
    {[k \in keys \cup {"taskId"} |-> full[k]] :
        keys \in SUBSET TaskFields,
        full \in [taskId : TaskIds, column : {"done"}, position : Positions,
                  text : Texts, priority : Priorities]}
\* the connection whose client's task board is followed
Observer == Nth(RelayPool, 1)

RemoveAt(q, i) == [j \in 1..(Len(q) - 1) |-> IF j < i THEN q[j] ELSE q[j + 1]]

\* this.wsClient.onTaskChanged: push the payload onto world.globals.taskBoardUpdates.
\* The packet is the first task-changed for b among those the server sent last.
Receive(b) ==
    /\ b \in live
    /\ b = Observer
    /\ Len(taskBoardUpdates) < MaxQueue
    /\ \E i \in 1..Len(sent) :
          /\ sent[i].to = b /\ sent[i].ev = "task-changed"
          /\ \A j \in 1..(i - 1) : ~(sent[j].to = b /\ sent[j].ev = "task-changed")
          /\ taskBoardUpdates' = Append(taskBoardUpdates, sent[i].data)
          /\ sent' = RemoveAt(sent, i)
    /\ last' = [ev |-> "receive", socket |-> b]
    /\ UNCHANGED <<rejoins, live, rooms, users, adapter, taskCards, taskComments, held>>

\* an update that is dropped
ApplyNothing(cards, u) == cards

\* update.position !== undefined: the payload has the key
Has(u, k) == k \in DOMAIN u

\* if (update.column), if (update.text), if (update.priority): the key is
\* present and its value is not the empty string
Truthy(u, k) == Has(u, k) /\ u[k] # ""

\* const taskEntity = ...find(taskId === update.taskId);
\* if (taskEntity) { if (update.column) ...; if (update.position !== undefined) ...;
\*                   if (update.text) ...; if (update.priority) ... }
ApplyUpdate(cards, u) ==
    IF u.taskId \in DOMAIN cards
    THEN [cards EXCEPT ![u.taskId] =
            [column |-> IF Truthy(u, "column") THEN u.column ELSE @.column,
             position |-> IF Has(u, "position") THEN u.position ELSE @.position,
             text |-> IF Truthy(u, "text") THEN u.text ELSE @.text,
             priority |-> IF Truthy(u, "priority") THEN u.priority ELSE @.priority,
             comments |-> @.comments]]
    ELSE cards

RECURSIVE ApplyAll(_, _)
\* updates.forEach(...)
ApplyAll(cards, q) ==
    IF q = <<>> THEN cards ELSE ApplyAll(ApplyUpdate(cards, Head(q)), Tail(q))

\* handleGrabbedTasks: the grabbed cards whose column is not the one they are
\* held over ("if (newColumn !== currentColumn)")
Moved(cards, h) == {t \in DOMAIN h : h[t] # cards[t].column}

\* entity.setValue(TaskCard, "column", newColumn) for each of them
Dropped(cards, h) ==
    [t \in DOMAIN cards |->
        IF t \in Moved(cards, h) THEN [cards[t] EXCEPT !.column = h[t]] ELSE cards[t]]

\* TaskBoardSystem.update of client b: processNetworkUpdates, then
\* handleGrabbedTasks with syncTaskToNetwork for every card it moved
\* (updateCardPositions and processVoiceCommands change no TaskCard field)
TaskTick(b) ==
    LET cards1 == ApplyAll(taskCards, taskBoardUpdates)
        cards2 == Dropped(cards1, held)
    IN  /\ b = Observer
        /\ taskCards' = cards2
        /\ taskBoardUpdates' = <<>>
        /\ last' = [ev |-> "tick", socket |-> b, applied |-> Len(taskBoardUpdates),
                     synced |-> {SyncTaskToNetwork(cards2[t], t) : t \in Moved(cards1, held)}]
        /\ UNCHANGED <<rejoins, live, rooms, users, adapter, sent, taskComments, held>>

\* this.wsClient.onTaskChanged of the observed client, the payload given
OnTaskChanged(data) ==
    /\ Len(taskBoardUpdates) < MaxQueue
    /\ taskBoardUpdates' = Append(taskBoardUpdates, data)
    /\ last' = [ev |-> "task-changed", data |-> data]
    /\ UNCHANGED <<rejoins, live, rooms, users, adapter, sent, taskCards, taskComments, held>>

\* received comments kept at one time
MaxComments == 2
\* new-comment payloads: the server's userId and the sender's voice-comment
Comments == [userId : {"u2"}, taskId : TaskIds, text : {"hi"}, timestamp : {1}]

\* this.wsClient.onNewComment of the observed client: push the payload onto
\* world.globals.taskComments
OnNewComment(data) ==
    /\ Len(taskComments) < MaxComments
    /\ taskComments' = Append(taskComments, data)
    /\ last' = [ev |-> "new-comment", data |-> data]
    /\ UNCHANGED <<rejoins, live, rooms, users, adapter, sent, taskCards,
                   taskBoardUpdates, held>>

\* The user grabs a card where it sits (isGrabbed becomes true), carries it
\* over a column, lets it go.  What handleGrabbedTasks reads of a grabbed
\* card's pose is the column its x coordinate rounds to.
Grab(t) ==
    /\ t \in DOMAIN taskCards /\ t \notin DOMAIN held
    /\ held' = MapSet(held, t, taskCards[t].column)
    /\ last' = [ev |-> "grab", taskId |-> t]
    /\ UNCHANGED <<rejoins, live, rooms, users, adapter, sent, taskCards,
                   taskBoardUpdates, taskComments>>

MoveTo(t, c) ==
    /\ t \in DOMAIN held /\ held[t] # c
    /\ held' = [held EXCEPT ![t] = c]
    /\ last' = [ev |-> "move", taskId |-> t]
    /\ UNCHANGED <<rejoins, live, rooms, users, adapter, sent, taskCards,
                   taskBoardUpdates, taskComments>>

Release(t) ==
    /\ t \in DOMAIN held
    /\ held' = MapDelete(held, t)
    /\ last' = [ev |-> "release", taskId |-> t]
    /\ UNCHANGED <<rejoins, live, rooms, users, adapter, sent, taskCards,
                   taskBoardUpdates, taskComments>>

TaskInit ==
    /\ taskCards = [t \in DemoTasks |-> DemoCard]
    /\ taskBoardUpdates = <<>>
    /\ taskComments = <<>>
    /\ held = << >>

(***************************************************************************)
(* The presence replica: NetworkSystem keeps remoteUsers and one Avatar    *)
(* entity per remote user; AvatarSystem.update stamps the local avatar and *)
(* derives every avatar's status from time - lastActivityTime.             *)
(***************************************************************************)
\* remote avatar entities the world can hold
MaxEntities == 2
\* idleTimeout: default 30.0 seconds
IdleTimeout == 30000
\* awayTimeout: default 120.0 seconds
AwayTimeout == 120000

LocalEntity == 0
RemoteEntities == 1..MaxEntities
Poses == {"p1"}
Gestures == {"pinch-grab"}
\* frame times around the two thresholds
PresenceTimes ==
    {0, 1000, IdleTimeout, IdleTimeout + 1000, AwayTimeout, AwayTimeout + 1000}

\* the Avatar and GestureState defaults, with what addComponent is given
NewAvatar(userId, color, isLocal) ==
    [userId |-> userId, color |-> color, isLocal |-> isLocal, pose |-> "p0",
     gesture |-> "none", status |-> "active", lastActivityTime |-> 0]

\* the entry is kept
RemoteUsersKeep(m, userId) == m

\* this.remoteUsers.delete(userId)
RemoteUsersDelete(m, userId) == MapDelete(m, userId)

\* onUserJoined -> createRemoteAvatar(userId, color)
OnUserJoined(userId, color) ==
    /\ RemoteEntities \ DOMAIN avatars # {}
    /\ LET entity == Nth(RemoteEntities \ DOMAIN avatars, 1)
       IN  /\ avatars' = MapSet(avatars, entity, NewAvatar(userId, color, FALSE))
           /\ remoteUsers' = MapSet(remoteUsers, userId, entity)
    /\ wlast' = [ev |-> "user-joined", userId |-> userId,
                 known |-> userId \in DOMAIN remoteUsers]
    /\ UNCHANGED time

\* onUserLeft -> removeRemoteAvatar(userId)
OnUserLeft(userId) ==
    /\ IF userId \in DOMAIN remoteUsers
       THEN /\ avatars' = MapDelete(avatars, remoteUsers[userId])
            /\ remoteUsers' = RemoteUsersDelete(remoteUsers, userId)
       ELSE UNCHANGED <<avatars, remoteUsers>>
    /\ wlast' = [ev |-> "user-left", userId |-> userId,
                 known |-> userId \in DOMAIN remoteUsers]
    /\ UNCHANGED time

\* onRemoteTransform -> updateRemoteAvatar(data)
OnRemoteTransform(userId, pose) ==
    /\ IF userId \in DOMAIN remoteUsers
       THEN avatars' = [avatars EXCEPT ![remoteUsers[userId]].pose = pose]
       ELSE UNCHANGED avatars
    /\ wlast' = [ev |-> "remote-transform", userId |-> userId,
                 known |-> userId \in DOMAIN remoteUsers]
    /\ UNCHANGED <<remoteUsers, time>>

\* onRemoteGesture -> updateRemoteGesture(data)
OnRemoteGesture(userId, gesture) ==
    /\ IF userId \in DOMAIN remoteUsers
       THEN avatars' = [avatars EXCEPT ![remoteUsers[userId]].gesture = gesture]
       ELSE UNCHANGED avatars
    /\ wlast' = [ev |-> "remote-gesture", userId |-> userId,
                 known |-> userId \in DOMAIN remoteUsers]
    /\ UNCHANGED <<remoteUsers, time>>

\* updateActivityStatus: the status for a time since the last activity
ActivityStatus(timeSinceActivity) ==
    IF timeSinceActivity > AwayTimeout THEN "away"
    ELSE IF timeSinceActivity > IdleTimeout THEN "idle"
    ELSE "active"

\* updateLocalAvatar: entity.setValue(Avatar, "lastActivityTime", time)
Stamped(avatar, t) ==
    IF avatar.isLocal THEN [avatar EXCEPT !.lastActivityTime = t] ELSE avatar

\* AvatarSystem.update(delta, time)
AvatarUpdate(t) ==
    /\ t >= time
    /\ time' = t
    /\ avatars' = [en \in DOMAIN avatars |->
                     LET avatar == Stamped(avatars[en], t)
                     IN  [avatar EXCEPT
                            !.status = ActivityStatus(t - avatar.lastActivityTime)]]
    /\ wlast' = [ev |-> "frame", userId |-> Undefined, known |-> FALSE]
    /\ UNCHANGED remoteUsers

\* what the XR session gives detectGestures: no session, a session without
\* both tracked hands, or both hands
Tracking == {"no-session", "no-hands", "hands"}
\* the gesture detected on the local user's hands
Detected == {"point"}

\* detectGestures(entity, ...): return without a session; reset the gesture
\* fields without both hands; else write the detected gestures
DetectGestures(avatar, tracking, gesture) ==
    CASE tracking = "no-session" -> avatar
      [] tracking = "no-hands" -> [avatar EXCEPT !.gesture = "none"]
      [] OTHER -> [avatar EXCEPT !.gesture = gesture]

\* GestureSystem.update: detectGestures for every entity that has a
\* GestureState; the local avatar and every remote avatar have one
GestureUpdate(tracking, gesture) ==
    /\ avatars' = [en \in DOMAIN avatars |-> DetectGestures(avatars[en], tracking, gesture)]
    /\ wlast' = [ev |-> "gestures", userId |-> Undefined, known |-> FALSE]
    /\ UNCHANGED <<remoteUsers, time>>

PresenceInit ==
    /\ remoteUsers = << >>
    /\ avatars = [en \in {LocalEntity} |-> NewAvatar("local", "c1", TRUE)]
    /\ wlast = [ev |-> "init", userId |-> Undefined, known |-> FALSE]

\* the packets under way to connection b
InFlight(q, b) == {i \in 1..Len(q) : q[i].to = b}

\* The client behind connection b handles the next packet under way to it:
\* socket.on("user-joined") and socket.on("user-left") call the NetworkSystem
\* handlers, socket.on("room-joined") logs data.users and resolves connect(),
\* socket.on("room-full") rejects it.
Deliver(b) ==
    /\ b \in live
    /\ InFlight(sent, b) # {}
    /\ LET i == Nth(InFlight(sent, b), 1)
           packet == sent[i]
       IN  /\ sent' = RemoveAt(sent, i)
           /\ CASE packet.ev = "user-joined" ->
                      OnUserJoined(packet.data.userId, packet.data.color)
                [] packet.ev = "user-left" -> OnUserLeft(packet.data.userId)
                [] OTHER ->
                      /\ wlast' = [ev |-> packet.ev, userId |-> Undefined, known |-> FALSE]
                      /\ UNCHANGED <<remoteUsers, avatars, time>>
    /\ last' = [ev |-> "deliver", socket |-> b]
    /\ UNCHANGED <<rejoins, live, rooms, users, adapter>>

WorldInit == SyncInit /\ TaskInit /\ PresenceInit

Init == ServerInit /\ ClientInit /\ WorldInit

\* The client alone; the server's answers arrive in any order the protocol allows.
SpecClient == Init /\ [][ClientNext /\ UNCHANGED <<serverVars, worldVars>>]_vars

\* A client nobody tears down: every attempt of a socket ends, every
\* reconnection timer fires, and a join-room that keeps being sent is answered.
ConnectNext ==
    \/ ConnectToServer
    \/ \E k \in Calls : ConnectError(k)
    \/ \E k \in Calls : ReconnectAttempt(k)
    \/ \E k \in Calls : OnConnect(k)
    \/ \E k \in Calls : OnRoomJoined(k)
    \/ \E k \in Calls : OnRoomFull(k)
    \/ \E k \in Calls : OnDisconnect(k)

SpecClientFair ==
    /\ Init
    /\ [][ConnectNext /\ UNCHANGED <<serverVars, worldVars>>]_vars
    /\ \A k \in Calls :
          /\ WF_vars((ConnectError(k) \/ OnConnect(k)) /\ UNCHANGED <<serverVars, worldVars>>)
          /\ WF_vars(ReconnectAttempt(k) /\ UNCHANGED <<serverVars, worldVars>>)
          /\ SF_vars((OnRoomJoined(k) \/ OnRoomFull(k)) /\ UNCHANGED <<serverVars, worldVars>>)

\* One client through connects, transport losses and disconnect(), and its frames.
SyncNext ==
    \/ ConnectToServer /\ UNCHANGED syncVars
    \/ \E k \in Calls : OnConnect(k) /\ UNCHANGED syncVars
    \/ \E k \in Calls : OnRoomJoined(k) /\ UNCHANGED syncVars
    \/ \E k \in Calls : OnDisconnect(k) /\ UNCHANGED syncVars
    \/ \E k \in Calls : ReconnectAttempt(k) /\ UNCHANGED syncVars
    \/ ClientDisconnect /\ UNCHANGED syncVars
    \/ \E t \in FrameTimes, hasLocal \in BOOLEAN :
           Update(t, hasLocal) /\ UNCHANGED clientVars

SpecSync == Init /\ [][SyncNext /\ UNCHANGED <<serverVars, taskVars, presenceVars>>]_vars

\* The server with up to RelaySockets clients that send task-update, receive
\* task-changed and run their task board frames.
TaskNext ==
    \/ Connection(RelayPool) /\ UNCHANGED taskVars
    \/ \E s \in RelayPool, r \in RoomIds, c \in Colors :
           JoinRoom(s, r, "u1", c) /\ UNCHANGED taskVars
    \/ \E s \in RelayPool, d \in TaskUpdates :
           Relay(s, "task-update", d) /\ UNCHANGED taskVars
    \/ \E s \in RelayPool : Disconnect(s) /\ UNCHANGED taskVars
    \/ Receive(Observer)
    \/ TaskTick(Observer)

SpecTask == Init /\ [][TaskNext /\ UNCHANGED <<clientVars, syncVars, presenceVars>>]_vars

\* One client's task board: task-changed events with every payload, and its frames.
BoardNext ==
    \/ \E d \in BoardUpdates : OnTaskChanged(d)
    \/ TaskTick(Observer)

SpecBoard == Init /\ [][BoardNext /\ UNCHANGED <<clientVars, syncVars, presenceVars>>]_vars

\* One client's task board with the user's drags, the task-changed payloads
\* other clients' drags produce, received comments, and its frames.
DragNext ==
    \/ \E d \in TaskUpdates : OnTaskChanged(d)
    \/ \E c \in Comments : OnNewComment(c)
    \/ \E t \in TaskIds : Grab(t)
    \/ \E t \in TaskIds, c \in Columns : MoveTo(t, c)
    \/ \E t \in TaskIds : Release(t)
    \/ TaskTick(Observer)

SpecDrag == Init /\ [][DragNext /\ UNCHANGED <<clientVars, syncVars, presenceVars>>]_vars

\* One client's presence events, in any order, and its avatar frames.
PresenceNext ==
    \/ \E u \in UserIds, c \in Colors : OnUserJoined(u, c)
    \/ \E u \in UserIds : OnUserLeft(u)
    \/ \E u \in UserIds, p \in Poses : OnRemoteTransform(u, p)
    \/ \E u \in UserIds, g \in Gestures : OnRemoteGesture(u, g)
    \/ \E t \in PresenceTimes : AvatarUpdate(t)

SpecPresence ==
    Init /\ [][PresenceNext
                 /\ UNCHANGED <<serverVars, clientVars, throttleVars, taskVars>>]_vars

\* One client's presence and gesture events and the frames of its GestureSystem.
GestureNext ==
    \/ \E u \in UserIds, c \in Colors : OnUserJoined(u, c)
    \/ \E u \in UserIds : OnUserLeft(u)
    \/ \E u \in UserIds, g \in Gestures : OnRemoteGesture(u, g)
    \/ \E tr \in Tracking, g \in Detected : GestureUpdate(tr, g)

SpecGesture ==
    Init /\ [][GestureNext
                 /\ UNCHANGED <<serverVars, clientVars, throttleVars, taskVars>>]_vars

\* the userId the client behind connection s presents where the environment
\* does not enumerate it: both equal and different userIds meet in a room
ClientUserId(s) == IF s % 2 = 1 THEN "u1" ELSE "u2"

\* Joins and disconnects of up to MaxSockets connections.
RegistryNext ==
    \/ Connection(Sockets)
    \/ \E s \in Sockets, r \in RoomIds, c \in Colors : JoinRoom(s, r, ClientUserId(s), c)
    \/ \E s \in Sockets : Disconnect(s)

SpecRegistry == Init /\ [][RegistryNext /\ UNCHANGED <<clientVars, worldVars>>]_vars

\* The same, and the relayed events, each with a payload that has no userId key.
SessionNext ==
    \/ Connection(Sockets)
    \/ \E s \in Sockets, r \in RoomIds, c \in Colors : JoinRoom(s, r, ClientUserId(s), c)
    \/ \E s \in Sockets, ev \in RelayEvents :
           Relay(s, ev, [userId |-> Undefined, body |-> "b1"])
    \/ \E s \in Sockets : Disconnect(s)

SpecSession == Init /\ [][SessionNext /\ UNCHANGED <<clientVars, worldVars>>]_vars

\* Every event with every userId and payload, on up to RelaySockets connections.
RelayNext ==
    \/ Connection(RelayPool)
    \/ \E s \in RelayPool, r \in RoomIds, u \in UserIds, c \in Colors : JoinRoom(s, r, u, c)
    \/ \E s \in RelayPool, ev \in RelayEvents, d \in Payloads : Relay(s, ev, d)
    \/ \E s \in RelayPool : Disconnect(s)

SpecRelay == Init /\ [][RelayNext /\ UNCHANGED <<clientVars, worldVars>>]_vars

\* Joins whose payload may lack roomId or userId, or be missing altogether.
MalformedNext ==
    \/ Connection(RelayPool)
    \/ \E s \in RelayPool, r \in RoomKeys, u \in {"u1", Undefined}, c \in Colors :
           JoinRoom(s, r, u, c)
    \/ \E s \in RelayPool : JoinRoomNoPayload(s)
    \/ \E s \in RelayPool : Disconnect(s)

\* The server and the presence replica of the client behind connection
\* Observer, which handles every packet sent to it before the server handles
\* its next event.
MirrorNext ==
    \/ /\ InFlight(sent, Observer) = {}
       /\ \/ Connection(RelayPool)
          \/ \E s \in RelayPool, r \in RoomIds, c \in Colors :
                 JoinRoom(s, r, ClientUserId(s), c)
          \/ \E s \in RelayPool : Disconnect(s)
       /\ UNCHANGED <<time, presenceVars>>
    \/ Deliver(Observer)

SpecMirror ==
    Init /\ [][MirrorNext /\ UNCHANGED <<clientVars, throttleVars, taskVars>>]_vars

SpecMalformed == Init /\ [][MalformedNext /\ UNCHANGED <<clientVars, worldVars>>]_vars

(***************************************************************************)
(* Reading the last handler's packets.                                     *)
(***************************************************************************)
\* the packets of a sequence that carry event ev
PacketsOf(q, ev) == {i \in 1..Len(q) : q[i].ev = ev}
\* the sockets a sequence has a packet of event ev for
Recipients(q, ev) == {q[i].to : i \in PacketsOf(q, ev)}
\* how many packets of event ev with payload d the sequence has for socket t
Count(q, ev, t, d) ==
    Cardinality({i \in PacketsOf(q, ev) : q[i].to = t /\ q[i].data = d})

\* the step is the join-room handler of socket s for room r
IsJoin(s, r) ==
    /\ last'.ev = "join-room" /\ last'.socket = s /\ last'.roomId = r
    /\ s \in live
\* the step is the disconnect handler of socket s
IsDisconnect(s) == last'.ev = "disconnect" /\ last'.socket = s /\ s \in live
\* the step is a relay handler of socket s
IsRelay(s) == last'.ev \in RelayEvents /\ last'.socket = s /\ s \in live

(***************************************************************************)
(* C1. After any sequence of join-room and disconnect events every room's  *)
(* member set has at most 4 members, and a join-room that arrives when the *)
(* room already has 4 members is answered with room-full alone, adds no    *)
(* member, records no session and sends no user-joined.                    *)
(***************************************************************************)
C1_CapacityStep ==
    /\ \A r \in DOMAIN rooms' : Cardinality(rooms'[r]) <= Capacity
    /\ \A s \in Sockets, r \in DOMAIN rooms :
         (IsJoin(s, r) /\ Cardinality(rooms[r]) = Capacity) =>
            /\ sent' = <<[to |-> s, ev |-> "room-full", data |-> NoData]>>
            /\ rooms' = rooms
            /\ users' = users
            /\ adapter' = adapter

C1_Capacity == [][C1_CapacityStep]_vars

\* a fifth connection has just been refused by a room of four
C1_Witness ==
    /\ last.ev = "join-room"
    /\ last.roomId \in DOMAIN rooms
    /\ Cardinality(rooms[last.roomId]) = Capacity
    /\ last.socket \notin rooms[last.roomId]
    /\ sent = <<[to |-> last.socket, ev |-> "room-full", data |-> NoData]>>

(***************************************************************************)
(* C2. After every handler the registry holds no room whose member set is  *)
(* empty: the disconnect handler that removes the last member of the       *)
(* session's room removes the room too, so a session that joins room r     *)
(* alone and then disconnects leaves r absent from the registry.           *)
(***************************************************************************)
C2_NoEmptyRoomStep ==
    /\ \A r \in DOMAIN rooms' : rooms'[r] # {}
    /\ \A s \in DOMAIN users :
         (IsDisconnect(s) /\ rooms[users[s].roomId] = {s}) =>
            users[s].roomId \notin DOMAIN rooms'
    /\ \A s \in DOMAIN users :
         (/\ last.ev = "join-room" /\ last.socket = s
          /\ users[s].roomId = last.roomId
          /\ rooms[last.roomId] = {s}
          /\ IsDisconnect(s)) => last.roomId \notin DOMAIN rooms'

C3_SlotReuseStep ==
    \A r \in DOMAIN rooms, m \in DOMAIN users :
      (/\ last.ev = "join-room" /\ last.roomId = r
       /\ sent = <<[to |-> last.socket, ev |-> "room-full", data |-> NoData]>>
       /\ Cardinality(rooms[r]) = Capacity
       /\ m \in rooms[r]
       /\ IsDisconnect(m))
      => /\ r \in DOMAIN rooms'
         /\ Cardinality(rooms'[r]) = Capacity - 1
         /\ \A t \in rooms'[r] :
              Count(sent', "user-left", t, [userId |-> users[m].userId]) = 1
         /\ ~RoomFull(rooms'[r])

C3_SlotReuse == [][C3_SlotReuseStep]_vars

(***************************************************************************)
(* C4. When a joined session disconnects, user-left with its userId is     *)
(* sent exactly once to every member remaining in a room that held the     *)
(* session and to no one else; a disconnect of a session that never        *)
(* completed a join sends nothing and changes no room.  (The send precedes *)
(* the room's deletion in the handler; a deleted room has nobody left to   *)
(* send to, so the order shows in no packet.)                              *)
(***************************************************************************)
\* the members that stay behind in the rooms whose Set holds s
Remaining(s) == UNION {rooms[r] \ {s} : r \in {x \in DOMAIN rooms : s \in rooms[x]}}

C4_UserLeftStep ==
    \A s \in Sockets :
      IsDisconnect(s) =>
        IF s \in DOMAIN users
        THEN /\ Recipients(sent', "user-left") = Remaining(s)
             /\ \A t \in Remaining(s) :
                  Count(sent', "user-left", t, [userId |-> users[s].userId]) = 1
             /\ Len(sent') = Cardinality(Remaining(s))
        ELSE sent' = <<>> /\ rooms' = rooms

C4_UserLeft == [][C4_UserLeftStep]_vars

(***************************************************************************)
(* C5. An update-transform, update-gesture, task-update or voice-comment   *)
(* from a session with no completed join (it never sent join-room, or was  *)
(* answered room-full) produces no outbound packet and leaves the rooms    *)
(* and the session table unchanged.                                        *)
(***************************************************************************)
C5_UnjoinedIgnoredStep ==
    \A s \in Sockets :
      (IsRelay(s) /\ s \notin DOMAIN users) =>
         /\ sent' = <<>>
         /\ rooms' = rooms
         /\ users' = users
         /\ adapter' = adapter

C5_UnjoinedIgnored == [][C5_UnjoinedIgnoredStep]_vars

\* a connection without a session has sent an event while a full room, which
\* has no place for it, and other sessions to relay to exist
C5_Witness ==
    /\ last.ev \in RelayEvents
    /\ last.socket \in live \ DOMAIN users
    /\ sent = <<>>
    /\ \E r \in DOMAIN rooms :
         Cardinality(rooms[r]) = Capacity /\ last.socket \notin rooms[r]

(***************************************************************************)
(* C6. Room isolation of the relay: a relayed event reaches only sessions  *)
(* registered in the sender's room, never the sender itself.               *)
(***************************************************************************)
C6_RoomIsolation ==
    (last.ev \in RelayEvents /\ last.socket \in DOMAIN users) =>
       \A i \in 1..Len(sent) :
          /\ sent[i].to # last.socket
          /\ sent[i].to \in DOMAIN users
          /\ users[sent[i].to].roomId = users[last.socket].roomId

(***************************************************************************)
(* C7. Sender attribution: the userId of every remote-transform,           *)
(* remote-gesture and new-comment is the userId the sending session        *)
(* registered in its join-room, whatever the inbound payload holds.        *)
(***************************************************************************)
C7_SenderAttribution ==
    (/\ last.ev \in {"update-transform", "update-gesture", "voice-comment"}
     /\ last.socket \in DOMAIN users) =>
       \A i \in 1..Len(sent) : sent[i].data.userId = users[last.socket].userId

(***************************************************************************)
(* C8. A successful join-room is answered with room-joined whose users     *)
(* list holds exactly one record for each other current member of the room *)
(* and none for the joiner, and user-joined of the joiner is sent to       *)
(* exactly those other members.                                            *)
(***************************************************************************)
C8_JoinAnswer ==
    (last.ev = "join-room" /\ Len(sent) > 0 /\ sent[Len(sent)].ev = "room-joined") =>
       LET s == last.socket
           others == rooms[last.roomId] \ {s}
           list == sent[Len(sent)].data.users
       IN  /\ sent[Len(sent)].to = s
           /\ Len(list) = Cardinality(others)
           /\ \A m \in others : m \in DOMAIN users
           /\ \A i \in 1..Len(list) :
                Cardinality({j \in 1..Len(list) : list[j] = list[i]})
                  = Cardinality({m \in others \cap DOMAIN users : users[m] = list[i]})
           /\ Recipients(sent, "user-joined") = others
           /\ \A m \in others :
                Count(sent, "user-joined", m,
                      [userId |-> users[s].userId, color |-> users[s].color]) = 1

(***************************************************************************)
(* C9. Within a room no two current members have the same userId.          *)
(***************************************************************************)
C9_UniqueUserId ==
    \A r \in DOMAIN rooms : \A a, b \in rooms[r] \cap live \cap DOMAIN users :
       (a # b /\ users[a].roomId = r /\ users[b].roomId = r) =>
          users[a].userId # users[b].userId

(***************************************************************************)
(* C10. connect() settles at most once and only in these ways: it resolves *)
(* only on room-joined, it fails with RoomFull only on room-full, and it   *)
(* fails with ConnectionError only when the retry budget of its connection *)
(* is used up, that is after 5 attempts of its socket have failed.         *)
(***************************************************************************)
C10_SettleStep ==
    \A c \in Calls :
      /\ promise[c] \notin {"none", "pending"} => promise'[c] = promise[c]
      /\ (promise[c] = "pending" /\ promise'[c] = "resolved")
            => clast' = [ev |-> "room-joined", sock |-> c]
      /\ (promise[c] = "pending" /\ promise'[c] = "RoomFull")
            => clast' = [ev |-> "room-full", sock |-> c]
      /\ (promise[c] = "pending" /\ promise'[c] = "ConnectionError")
            => /\ clast' = [ev |-> "connect_error", sock |-> c]
               /\ sock[c].tries >= MaxReconnectAttempts

C10_Settle == [][C10_SettleStep]_vars

\* C10, its last sentence, under SpecClientFair: every connect() call settles.
\* Refuted as well: a socket left open by an earlier call resets the shared
\* counter, the manager of the call's socket gives up after its last attempt,
\* and the Promise stays pending.
C10_EventuallySettles ==
    \A c \in Calls : (promise[c] = "pending") ~> (promise[c] # "pending")

(***************************************************************************)
(* C11. One connect() call makes at most 5 transport connection attempts   *)
(* in a row: after the 5th consecutive failure no 6th attempt is started.  *)
(***************************************************************************)
C11_AttemptBudget == \A k \in Calls : sock[k].tries <= MaxReconnectAttempts

(***************************************************************************)
(* C12. ConnectionError is terminal: once a connect() call has failed with *)
(* ConnectionError the client starts no connection attempt, neither a new  *)
(* connect() from a timer nor a reconnection of a socket, and no socket    *)
(* connects and sends join-room.                                           *)
(***************************************************************************)
C12_TerminalStep ==
    (\E c \in Calls : promise[c] = "ConnectionError")
        => clast'.ev \notin {"connect()", "reconnect_attempt", "connect"}

C12_Terminal == [][C12_TerminalStep]_vars

(***************************************************************************)
(* C13. RoomFull is not retried: once a connect() call has failed with     *)
(* RoomFull no "connect" handler runs, the only place join-room is sent.   *)
(***************************************************************************)
C13_NoRetryStep ==
    (\E c \in Calls : promise[c] = "RoomFull") => clast'.ev # "connect"

C13_NoRetry == [][C13_NoRetryStep]_vars

(***************************************************************************)
(* C14. A send method emits only when the client is Connected, that is on  *)
(* a connected socket whose join-room was acknowledged by room-joined; in  *)
(* every other state it emits nothing.                                     *)
(***************************************************************************)
Acknowledged == socket # 0 /\ sock[socket].state = "connected" /\ sock[socket].acked

C14_SendOnlyJoinedStep ==
    (clast'.ev = "send" /\ clast'.emitted) => Acknowledged

C14_SendOnlyJoined == [][C14_SendOnlyJoinedStep]_vars

(***************************************************************************)
(* C15. disconnect() is idempotent and final: it leaves isConnected()      *)
(* false, a disconnect() without a socket changes nothing, and while the   *)
(* client has no socket after a disconnect() no socket of it starts a      *)
(* connection attempt, connects and sends join-room, or emits a message.   *)
(***************************************************************************)
Disconnected == socket = 0 /\ calls > 0

C15_DisconnectFinalStep ==
    /\ clast'.ev = "disconnect()"
          => /\ ~IsConnected'
             /\ socket = 0 =>
                  UNCHANGED <<calls, promise, sock, socket, reconnectAttempts, retryTimer>>
    /\ Disconnected
          => /\ clast'.ev \notin {"reconnect_attempt", "connect"}
             /\ clast'.ev = "send" => ~clast'.emitted

C15_DisconnectFinal == [][C15_DisconnectFinalStep]_vars

(***************************************************************************)
(* C16. Two consecutive update-transform emissions of a client are at      *)
(* frame times at least syncRate apart, whatever the frame rate.           *)
(***************************************************************************)
C16_Throttle == prevEmitTime >= 0 => lastEmitTime - prevEmitTime >= SyncRate

\* after two emissions, a frame inside the window sent gestures and no transform
C16_Witness ==
    /\ prevEmitTime >= 0
    /\ frame = [transform |-> FALSE, gesture |-> TRUE]
    /\ time - lastEmitTime < SyncRate

(***************************************************************************)
(* C17. Sequential edit fidelity.  When a member A of a room sends a       *)
(* task-update, every other connected member of that room is sent exactly  *)
(* one task-changed whose payload is the payload A sent; the receiving     *)
(* client queues that payload unchanged; and its next task board frame     *)
(* sets the column of a task it holds to the column of the one queued      *)
(* update for that task, and empties the queue.                            *)
(***************************************************************************)
UpdatesFor(q, t) == {i \in 1..Len(q) : q[i].taskId = t}

C17_EditFidelityStep ==
    /\ \A a \in RelayPool :
         (last'.ev = "task-update" /\ last'.socket = a /\ HasSession(users, a))
            => /\ \A i \in PacketsOf(sent', "task-changed") : sent'[i].data = last'.data
               /\ \A b \in live \ {a} :
                    (HasSession(users, b) /\ users[b].roomId = users[a].roomId)
                       => Count(sent', "task-changed", b, last'.data) = 1
    /\ last'.ev = "receive"
          => \E i \in PacketsOf(sent, "task-changed") :
               /\ sent[i].to = Observer
               /\ taskBoardUpdates' = Append(taskBoardUpdates, sent[i].data)
    /\ last'.ev = "tick"
          => /\ taskBoardUpdates' = <<>>
             /\ \A t \in DOMAIN taskCards :
                  /\ UpdatesFor(taskBoardUpdates, t) = {} => taskCards'[t] = taskCards[t]
                  /\ \A i \in UpdatesFor(taskBoardUpdates, t) :
                       UpdatesFor(taskBoardUpdates, t) = {i}
                          => taskCards'[t].column = taskBoardUpdates[i].column

C17_EditFidelity == [][C17_EditFidelityStep]_vars

\* the observed client's frame applied an update and its task_1 is in column
\* done, while it and the sender's connection are members of one room
C17_Witness ==
    /\ last.ev = "tick" /\ last.applied >= 1
    /\ taskCards["task_1"].column = "done"
    /\ HasSession(users, Observer)
    /\ \E a \in live \ {Observer} :
         HasSession(users, a) /\ users[a].roomId = users[Observer].roomId

(***************************************************************************)
(* C18. After the client has processed one user-left for u, remoteUsers    *)
(* has no entry for u, whatever was processed before; a user-left for a    *)
(* user without an entry changes neither the map nor an avatar.            *)
(***************************************************************************)
C18_UserLeftStep ==
    \A u \in UserIds :
      (wlast'.ev = "user-left" /\ wlast'.userId = u)
         => /\ u \notin DOMAIN remoteUsers'
            /\ u \notin DOMAIN remoteUsers
                  => remoteUsers' = remoteUsers /\ avatars' = avatars

C18_UserLeftRemoves == [][C18_UserLeftStep]_vars

\* a user-left for a user that had an entry, while another user keeps its own
C18_Witness ==
    /\ wlast.ev = "user-left" /\ wlast.known
    /\ wlast.userId \notin DOMAIN remoteUsers
    /\ remoteUsers # << >>

(***************************************************************************)
(* C19. After every frame each avatar's status is the function of          *)
(* elapsed = time - lastActivityTime the specification gives: active below *)
(* 30 s, idle from exactly 30 s and below 120 s, away from exactly 120 s.  *)
(***************************************************************************)
PresenceStatus(elapsed) ==
    IF elapsed < IdleTimeout THEN "active"
    ELSE IF elapsed < AwayTimeout THEN "idle"
    ELSE "away"

C19_StatusThresholds ==
    wlast.ev = "frame"
       => \A en \in DOMAIN avatars :
            avatars[en].status = PresenceStatus(time - avatars[en].lastActivityTime)

(***************************************************************************)
(* C20. Processing a remote-transform or remote-gesture for a user that    *)
(* has an entry sets that avatar's last-update time to the current time,   *)
(* so that the next frame finds it active.                                 *)
(***************************************************************************)
C20_RefreshStep ==
    \A u \in UserIds :
      (/\ wlast'.ev \in {"remote-transform", "remote-gesture"}
       /\ wlast'.userId = u
       /\ u \in DOMAIN remoteUsers)
         => avatars'[remoteUsers[u]].lastActivityTime = time

C20_Refresh == [][C20_RefreshStep]_vars

(***************************************************************************)
(* C21. A frame of the task board applies the queued task-changed updates  *)
(* in arrival order, each once: an update for a known task overwrites each *)
(* of column, position, text and priority that is present in it with its   *)
(* value, whatever the value (position 0 and the empty text included), and *)
(* leaves the absent fields unchanged; an update for an unknown taskId     *)
(* changes no task; and the queue is empty after the frame.                *)
(***************************************************************************)
Overwritten(card, u) ==
    [k \in DOMAIN card |-> IF k \in TaskFields /\ k \in DOMAIN u THEN u[k] ELSE card[k]]

RECURSIVE OverwrittenByAll(_, _)
OverwrittenByAll(cards, q) ==
    IF q = <<>> THEN cards
    ELSE OverwrittenByAll(
            IF Head(q).taskId \in DOMAIN cards
            THEN [cards EXCEPT ![Head(q).taskId] = Overwritten(@, Head(q))]
            ELSE cards,
            Tail(q))

C21_FieldOverwriteStep ==
    last'.ev = "tick"
       => /\ taskCards' = OverwrittenByAll(taskCards, taskBoardUpdates)
          /\ taskBoardUpdates' = <<>>

C21_FieldOverwrite == [][C21_FieldOverwriteStep]_vars

(***************************************************************************)
(* C22. A received new-comment for a task the client holds is appended to  *)
(* the end of that task's comment sequence, one for an unknown task is     *)
(* dropped, and after the client's next frame no received comment is       *)
(* pending.                                                                *)
(***************************************************************************)
RECURSIVE Commented(_, _)
Commented(cards, q) ==
    IF q = <<>> THEN cards
    ELSE Commented(
            IF Head(q).taskId \in DOMAIN cards
            THEN [cards EXCEPT ![Head(q).taskId].comments =
                     Append(@, [userId |-> Head(q).userId, text |-> Head(q).text,
                                timestamp |-> Head(q).timestamp])]
            ELSE cards,
            Tail(q))

C22_CommentsStep ==
    last'.ev = "tick"
       => /\ taskComments' = <<>>
          /\ \A t \in DOMAIN taskCards :
                taskCards'[t].comments = Commented(taskCards, taskComments)[t].comments

C22_Comments == [][C22_CommentsStep]_vars

(***************************************************************************)
(* C23. A join-room whose payload lacks roomId or userId, or that has no   *)
(* payload, is discarded silently: it creates no room, adds no member,     *)
(* records no session, sends no packet, and raises no error.               *)
(***************************************************************************)
C23_SilentDropStep ==
    (last'.ev = "join-room" /\ (last'.roomId = Undefined \/ last'.userId = Undefined))
       => /\ rooms' = rooms
          /\ users' = users
          /\ adapter' = adapter
          /\ sent' = <<>>
          /\ "threw" \notin DOMAIN last'

C23_SilentDrop == [][C23_SilentDropStep]_vars

(***************************************************************************)
(* C24. Registry consistency under repeated joins: every socket id in a    *)
(* room's member set has a session record whose roomId is that room, every *)
(* id is a member of at most one room, and a socket that has disconnected  *)
(* is in no room's member set.                                             *)
(***************************************************************************)
C24_RegistryConsistent ==
    \A r \in DOMAIN rooms : \A s \in rooms[r] :
       /\ s \in live
       /\ HasSession(users, s) /\ users[s].roomId = r
       /\ \A q \in DOMAIN rooms : s \in rooms[q] => q = r

(***************************************************************************)
(* C25. The presence replica mirrors the room: when the client behind a    *)
(* connection has joined a room and no packet is under way to it, the keys *)
(* of its remoteUsers map are the userIds of the other current members of  *)
(* its room, members that were there before it joined included.            *)
(***************************************************************************)
OtherMembers(b) ==
    {users[q].userId : q \in {x \in rooms[users[b].roomId] \ {b} : HasSession(users, x)}}

C25_PresenceMirrors ==
    (/\ Observer \in live
     /\ HasSession(users, Observer)
     /\ users[Observer].roomId \in DOMAIN rooms
     /\ InFlight(sent, Observer) = {})
       => DOMAIN remoteUsers = OtherMembers(Observer)

(***************************************************************************)
(* C26. Connected implies registered: whenever the connect() call of the   *)
(* client's socket has resolved, isConnected() is true and no join-room of *)
(* that socket is unanswered, the latest join-room of the socket's present *)
(* connection was answered room-joined, so the server holds its session.   *)
(***************************************************************************)
C26_ConnectedRegistered ==
    (/\ IsConnected
     /\ promise[socket] = "resolved"
     /\ ~sock[socket].joinSent)
       => sock[socket].acked

(***************************************************************************)
(* C27. Every transport-level connect of a socket, the first and each      *)
(* reconnection, sends exactly one join-room, and a send method emits on a *)
(* connection only after that connection's join-room.                      *)
(***************************************************************************)
C27_JoinFirstStep ==
    /\ clast'.ev = "connect"
          => sock[clast'.sock].joins = 0 /\ sock'[clast'.sock].joins = 1
    /\ \A k \in Calls :
          sock'[k].joins > sock[k].joins => clast'.ev = "connect" /\ clast'.sock = k
    /\ (clast'.ev = "send" /\ clast'.emitted) => sock[socket].joins = 1

LiveSockets == {k \in Calls : sock[k].state \in {"opening", "backoff", "connected"}}

C28_OneLiveConnection ==
    /\ Cardinality(LiveSockets) <= 1
    /\ clast.ev = "disconnect()" => LiveSockets = {}

(***************************************************************************)
(* C29. No echo of remote task updates: a frame of the task board calls    *)
(* sendTaskUpdate only for a card that the local drag holds over a column  *)
(* other than the card's own; when every held card is over its own column  *)
(* at the start of a frame, applying the received task-changed updates     *)
(* makes the frame send nothing.                                           *)
(***************************************************************************)
C29_NoEchoStep ==
    (last'.ev = "tick" /\ Moved(taskCards, held) = {}) => last'.synced = {}

C30_GestureFrameStep ==
    \A en \in DOMAIN avatars \cap DOMAIN avatars' :
       (~avatars[en].isLocal /\ avatars'[en].gesture # avatars[en].gesture)
          => wlast'.ev = "remote-gesture" /\ wlast'.userId = avatars[en].userId

C30_GestureFrame == [][C30_GestureFrameStep]_vars

====
